---- MODULE Spec2Model ----
(***************************************************************************)
(* Model of the Nagios probes of check-open-fds: the stateful CPU usage    *)
(* probe (check_process_cpu_usage.py) with its threshold language and its  *)
(* persisted sample, and the entry point of check_open_fds.py.             *)
(*                                                                         *)
(* Texts are sequences of one-character strings.  Floats are fixed-point   *)
(* integers scaled by Scale; the two infinities are tagged values.         *)
(***************************************************************************)
EXTENDS Integers, Sequences, FiniteSets, TLC

\* ------------------------------------------------------------ bounds
\* Longest threshold text enumerated exhaustively.
MaxLen == 4

\* Latest reading of the monotonic clock.
MaxClock == 2

\* Most CPU time (user plus system) a process consumes.
MaxWork == 2

\* Logical CPUs of the machine (psutil.cpu_count()).
NumCpus == 2

\* Fraction digits a fixed-point number keeps: every text of at most MaxLen
\* characters has at most MaxLen - 2 of them.
FracDigits == MaxLen - 1

RECURSIVE Pow10(_)
Pow10(n) == IF n = 0 THEN 1 ELSE 10 * Pow10(n - 1)

Scale == Pow10(FracDigits)

\* ------------------------------------------------------------ floats
Fin(n) == [inf |-> 0, v |-> n]
PosInf == [inf |-> 1, v |-> 0]
NegInf == [inf |-> -1, v |-> 0]

Lt(a, b) == \/ a.inf < b.inf
            \/ a.inf = 0 /\ b.inf = 0 /\ a.v < b.v
Le(a, b) == Lt(a, b) \/ a = b
Gt(a, b) == Lt(b, a)
Ge(a, b) == Le(b, a)

\* ------------------------------------------------------------ texts
Digits == {"0", "1", "2", "3", "4", "5", "6", "7", "8", "9"}

DigitVal(c) ==
    CASE c = "0" -> 0 [] c = "1" -> 1 [] c = "2" -> 2 [] c = "3" -> 3
      [] c = "4" -> 4 [] c = "5" -> 5 [] c = "6" -> 6 [] c = "7" -> 7
      [] c = "8" -> 8 [] c = "9" -> 9

\* The character at position i, or "" past the end of the text.
CharAt(s, i) == IF i >= 1 /\ i <= Len(s) THEN s[i] ELSE ""

\* \d+ at position i, greedy: the number of characters it takes (0: no match).
RECURSIVE DigitsLen(_, _)
DigitsLen(s, i) ==
    IF CharAt(s, i) \in Digits THEN 1 + DigitsLen(s, i + 1) ELSE 0

\* \d+(\.\d+)? at position i, greedy: the number of characters it takes.
NumberLen(s, i) ==
    LET d == DigitsLen(s, i)
        f == DigitsLen(s, i + d + 1)
    IN  IF d = 0 THEN 0
        ELSE IF CharAt(s, i + d) = "." /\ f > 0 THEN d + 1 + f
        ELSE d

\* A regex group that did not take part in the match (Python's None).
NoGroup == [some |-> FALSE, text |-> <<>>]
Group(t) == [some |-> TRUE, text |-> t]

\* re.match of the threshold pattern: its groupdict.  Every part of the
\* pattern is optional, so the match never fails and stops at the first
\* character that fits no part.
ReMatch(raw) ==
    LET incl == CharAt(raw, 1) = "@"
        p1 == IF incl THEN 2 ELSE 1
        n1 == NumberLen(raw, p1)
        low == IF n1 > 0 /\ CharAt(raw, p1 + n1) = ":"
                 THEN [g |-> Group(SubSeq(raw, p1, p1 + n1 - 1)), next |-> p1 + n1 + 1]
               ELSE IF CharAt(raw, p1) = "~" /\ CharAt(raw, p1 + 1) = ":"
                 THEN [g |-> Group(<<"~">>), next |-> p1 + 2]
               ELSE IF CharAt(raw, p1) = ":"
                 THEN [g |-> NoGroup, next |-> p1 + 1]
               ELSE [g |-> NoGroup, next |-> p1]
        n2 == NumberLen(raw, low.next)
    IN  [is_inclusive  |-> IF incl THEN <<"@">> ELSE <<>>,
         low_boundary  |-> low.g,
         high_boundary |-> IF n2 > 0
                             THEN Group(SubSeq(raw, low.next, low.next + n2 - 1))
                             ELSE NoGroup,
         end           |-> low.next + n2 - 1]

\* The digits of t read as a decimal integer.
RECURSIVE IntOf(_)
IntOf(t) == IF t = <<>> THEN 0
            ELSE 10 * IntOf(SubSeq(t, 1, Len(t) - 1)) + DigitVal(t[Len(t)])

\* float() of a text matched by \d+(\.\d+)?, as a fixed-point number.
Float(t) ==
    LET d == DigitsLen(t, 1)
        frac == SubSeq(t, d + 2, Len(t))
    IN  Fin(IntOf(SubSeq(t, 1, d)) * Scale
            + IF Len(frac) = 0 THEN 0
              ELSE IF Len(frac) <= FracDigits
                THEN IntOf(frac) * Pow10(FracDigits - Len(frac))
              ELSE IntOf(SubSeq(frac, 1, FracDigits)))

\* ------------------------------------------------------------ NagiosThreshold
\* A threshold that was never constructed.
NoThreshold ==
    [state |-> "none", inclusive |-> FALSE,
     low_boundary |-> Fin(0), high_boundary |-> Fin(0)]

\* The constructor raised AssertionError.
ThresholdError ==
    [state |-> "AssertionError", inclusive |-> FALSE,
     low_boundary |-> Fin(0), high_boundary |-> Fin(0)]

\* A constructor that reads "~" as the default low boundary 0 instead of
\* -infinity.
ThresholdTildeAsZero(raw) ==
    IF raw = <<>> THEN ThresholdError
    ELSE LET matched == ReMatch(raw)
         IN  [state |-> "ok",
              inclusive |-> matched.is_inclusive # <<>>,
              low_boundary |->
                  IF ~matched.low_boundary.some
                       \/ matched.low_boundary.text = <<"~">> THEN Fin(0)
                  ELSE Float(matched.low_boundary.text),
              high_boundary |->
                  IF matched.high_boundary.some
                    THEN Float(matched.high_boundary.text)
                    ELSE PosInf]

\* NagiosThreshold.__init__
NagiosThreshold(raw) ==
    IF raw = <<>> THEN ThresholdError
    ELSE LET matched == ReMatch(raw)
         IN  [state |-> "ok",
              inclusive |-> matched.is_inclusive # <<>>,
              low_boundary |->
                  IF ~matched.low_boundary.some THEN Fin(0)
                  ELSE IF matched.low_boundary.text = <<"~">> THEN NegInf
                  ELSE Float(matched.low_boundary.text),
              high_boundary |->
                  IF matched.high_boundary.some
                    THEN Float(matched.high_boundary.text)
                    ELSE PosInf]

\* The result of is_outside_boundaries: None, or the test that failed.
None == [op |-> "None", number |-> Fin(0), boundary |-> Fin(0)]
Failed(number, op, boundary) ==
    [op |-> op, number |-> number, boundary |-> boundary]

\* A test that ignores the "@" prefix: the boundaries always violate.
OutsideIgnoringInclusive(self, number) ==
    IF Le(number, self.low_boundary)
      THEN Failed(number, "<=", self.low_boundary)
    ELSE IF Ge(number, self.high_boundary)
      THEN Failed(number, ">=", self.high_boundary)
    ELSE None

\* NagiosThreshold.is_outside_boundaries
is_outside_boundaries(self, number) ==
    IF self.inclusive
      THEN IF Lt(number, self.low_boundary)
             THEN Failed(number, "<", self.low_boundary)
           ELSE IF Gt(number, self.high_boundary)
             THEN Failed(number, ">", self.high_boundary)
           ELSE None
      ELSE IF Le(number, self.low_boundary)
             THEN Failed(number, "<=", self.low_boundary)
           ELSE IF Ge(number, self.high_boundary)
             THEN Failed(number, ">=", self.high_boundary)
           ELSE None

\* ------------------------------------------------------------ state
VARIABLES
    raw,        \* the text handed to NagiosThreshold(raw)
    threshold,  \* the NagiosThreshold object under test
    number,     \* the last number handed to is_outside_boundaries
    outside,    \* what that call returned
    tpc         \* "new", "constructed", "failed" or "evaluated"

tvars == <<raw, threshold, number, outside, tpc>>

VARIABLES
    files,      \* the state file of each pid (BUFFER_PATH is a function of PID)
    proc,       \* the CPU times of the process under each pid, as last read
    clock,      \* time.monotonic()
    probe,      \* the script running: "cpu", "fds" or "none"
    pc,         \* where the running script is
    CONFIG,     \* parse_args() of the CPU probe
    PID,        \* get_pid_from_command(CONFIG.pid_cmd)
    CPU_PERCENT,
    THRESHOLD_WARNING,
    THRESHOLD_CRITICAL,
    fds,        \* the locals of check_open_fds.py: CONFIG, USED, MAX
    out,        \* how the script ended: status line, exit code, error
    call,       \* the last call of get_pid_cpu_percent
    hist,       \* per pid, what the calls of get_pid_cpu_percent so far came to
    inv         \* the CPU probes running side by side, each at its own step

envvars == <<files, proc, clock>>
pvars == <<probe, pc, CONFIG, PID, CPU_PERCENT, THRESHOLD_WARNING,
           THRESHOLD_CRITICAL, fds, out, call, hist, inv>>
vars == <<raw, threshold, number, outside, tpc, files, proc, clock,
          probe, pc, CONFIG, PID, CPU_PERCENT, THRESHOLD_WARNING,
          THRESHOLD_CRITICAL, fds, out, call, hist, inv>>

\* ------------------------------------------------------------ threshold inputs
\* The characters of the grammar, and "a" and "-" for the ones outside it.
Alphabet == {"@", "~", ":", ".", "1", "5", "a", "-"}

\* The texts the documentation and the specification use as examples.
ExampleTexts ==
    { <<"1", "0">>, <<"1", "0", ":">>, <<"~", ":", "1", "0">>,
      <<"1", "0", ":", "2", "0">>, <<"@", "1", "0", ":", "2", "0">>,
      <<"~", ":", "5">>, <<"a", "b", "c">>, <<"-", "5">>,
      <<"1", "0", ":", "2", "0", "x">>, <<"1", ":", "2", ":", "3">>, <<"~">> }

Texts == UNION { [1..n -> Alphabet] : n \in 0..MaxLen } \cup ExampleTexts

\* The numbers a threshold is evaluated at: around each finite boundary, zero
\* and negative ones.
NumberInputs(self) ==
    { Fin(0), Fin(-1), Fin(-Scale) }
    \cup { Fin(b.v + d) : b \in { x \in {self.low_boundary, self.high_boundary} : x.inf = 0 },
                          d \in {-1, 0, 1} }

ThresholdIdle ==
    /\ raw = <<>>
    /\ threshold = NoThreshold
    /\ number = Fin(0)
    /\ outside = None
    /\ tpc = "idle"

ThresholdStart ==
    /\ raw \in Texts
    /\ threshold = NoThreshold
    /\ number = Fin(0)
    /\ outside = None
    /\ tpc = "new"

\* THRESHOLD = NagiosThreshold(raw)
Construct ==
    /\ tpc = "new"
    /\ threshold' = NagiosThreshold(raw)
    /\ tpc' = IF threshold'.state = "ok" THEN "constructed" ELSE "failed"
    /\ UNCHANGED <<raw, number, outside, envvars, pvars>>

\* THRESHOLD.is_outside_boundaries(n)
Evaluate ==
    /\ tpc \in {"constructed", "evaluated"}
    /\ \E n \in NumberInputs(threshold) :
         /\ number' = n
         /\ outside' = is_outside_boundaries(threshold, n)
    /\ tpc' = "evaluated"
    /\ UNCHANGED <<raw, threshold, envvars, pvars>>

ThresholdNext == Construct \/ Evaluate

\* ------------------------------------------------------------ values
\* A value read from JSON, or held by a Python field: a number, a string or
\* None.  NamedTuple fields are not type-checked, so a record holds any.
JNum(n) == [t |-> "num", v |-> n]
JStr == [t |-> "str", v |-> 0]
JNull == [t |-> "null", v |-> 0]

\* The pids the PID command prints.
Pids == {1}

\* A pid of another process, as a stale state file may name it.
OtherPid == 2

\* The pids there may be a state file for.
Slots == Pids \cup {OtherPid}

\* CpuTimesNamedTuple
CpuTimesNamedTuple(pid, timestamp, user, system, children_user, children_system, iowait) ==
    [pid |-> pid, timestamp |-> timestamp, user |-> user, system |-> system,
     children_user |-> children_user, children_system |-> children_system,
     iowait |-> iowait]

ZeroTuple ==
    CpuTimesNamedTuple(JNum(0), JNum(0), JNum(0), JNum(0), JNum(0), JNum(0), JNum(0))

\* psutil's pcputimes, as the kernel reports it: plain numbers.
pcputimes(user, system, children_user, children_system, iowait) ==
    [user |-> user, system |-> system, children_user |-> children_user,
     children_system |-> children_system, iowait |-> iowait]

ZeroTimes == pcputimes(0, 0, 0, 0, 0)

\* ------------------------------------------------------------ the state file
\* A path with no pid in it: every process shares one state file.
SharedBufferPath(pid) == 1

\* BUFFER_PATH: <tempdir>/<script>_pid_<PID>.json, one file per pid.  A file
\* is named here by the pid in its name.
BUFFER_PATH(pid) == pid

\* What is at BUFFER_PATH: nothing, text that json.load or cls(**data)
\* rejects, or a JSON object with exactly the seven field names.
Missing == [kind |-> "missing", data |-> ZeroTuple]
Garbage(kind) == [kind |-> kind, data |-> ZeroTuple]
Record(data) == [kind |-> "record", data |-> data]

GarbageKinds == {"truncated", "not_json", "not_object", "missing_field", "unknown_field"}

\* A save that opens the file for writing and writes nothing.
SaveNothing(self) == Garbage("truncated")

\* CpuTimesNamedTuple.save_to_disk: json.dump(self._asdict()).
save_to_disk(self) == Record(self)

\* A load that reports every file it cannot deserialize as a missing one.
LoadUnreadableAsMissing(content) ==
    IF content.kind # "record"
      THEN [raised |-> "FileNotFoundError", value |-> ZeroTuple]
    ELSE [raised |-> "none", value |-> content.data]

\* An open that removes the file and creates it when the text is written.
OpenUnlinks(content) == Missing

\* open(path, "w") of save_to_disk: the file is there and empty.
OpenForWriting(content) == Garbage("truncated")

\* The characters json.dump writes for a number below 1000.
NumLen(n) == IF n < 10 THEN 1 ELSE IF n < 100 THEN 2 ELSE 3

\* The length of the text of a sample, up to what all samples share.
TextLen(self) ==
    NumLen(self.pid.v) + NumLen(self.timestamp.v) + NumLen(self.user.v)
    + NumLen(self.system.v) + NumLen(self.children_user.v)
    + NumLen(self.children_system.v) + NumLen(self.iowait.v)

\* json.dump and the close of save_to_disk, on the file as it is by then: the
\* text goes to the start of the file, and what another writer has put there
\* since the open stays behind it where it is longer.
Dump(self, content) ==
    IF content.kind = "record" /\ TextLen(content.data) > TextLen(self)
      THEN Garbage("not_json")
      ELSE save_to_disk(self)

\* CpuTimesNamedTuple.load_from_disk: open, json.load, cls(**data).
load_from_disk(content) ==
    IF content.kind = "missing"
      THEN [raised |-> "FileNotFoundError", value |-> ZeroTuple]
    ELSE IF content.kind \in {"truncated", "not_json"}
      THEN [raised |-> "JSONDecodeError", value |-> ZeroTuple]
    ELSE IF content.kind \in {"not_object", "missing_field", "unknown_field"}
      THEN [raised |-> "TypeError", value |-> ZeroTuple]
    ELSE [raised |-> "none", value |-> content.data]

\* A record whose seven fields all hold numbers.
AllNumbers(content) ==
    /\ content.kind = "record"
    /\ \A f \in DOMAIN content.data : content.data[f].t = "num"

\* A sample as the probe writes it for pid: numbers in every field.
WellFormed(content, pid) ==
    /\ content.kind = "record"
    /\ content.data.pid = JNum(pid)
    /\ \A f \in {"timestamp", "user", "system", "children_user",
                 "children_system", "iowait"} : content.data[f].t = "num"

\* ------------------------------------------------------------ psutil
\* round(a / b, 1) in fixed point, for b # 0: the nearest tenth, a tie going
\* to the even one.
Tenths(a, b) ==
    LET num == IF b > 0 THEN 10 * a ELSE -(10 * a)
        den == IF b > 0 THEN b ELSE -b
        q == num \div den
        r == num % den
    IN  (IF 2 * r < den THEN q
         ELSE IF 2 * r > den THEN q + 1
         ELSE IF q % 2 = 0 THEN q ELSE q + 1) * (Scale \div 10)

\* A cpu_percent that counts the time spent waiting for I/O as CPU time.
CpuPercentWithIowait(seeded, st1, pt1, st2, pt2) ==
    IF ~seeded \/ st1.t = "null"
      THEN [raised |-> "none", value |-> Fin(0)]
    ELSE IF pt1.user.t # "num" \/ pt1.system.t # "num" \/ st1.t # "num"
              \/ pt1.iowait.t # "num"
      THEN [raised |-> "TypeError", value |-> Fin(0)]
    ELSE LET delta_proc == (pt2.user - pt1.user.v) + (pt2.system - pt1.system.v)
                             + (pt2.iowait - pt1.iowait.v)
             delta_time == st2 - st1.v
         IN  IF delta_time = 0
               THEN [raised |-> "none", value |-> Fin(0)]
               ELSE [raised |-> "none",
                     value |-> Fin(Tenths(delta_proc * 100 * NumCpus, delta_time))]

\* Process.cpu_percent(interval=None): st1 and pt1 are _last_sys_cpu_times and
\* _last_proc_cpu_times (seeded or not), st2 = timer() and pt2 = cpu_times().
cpu_percent(seeded, st1, pt1, st2, pt2) ==
    IF ~seeded \/ st1.t = "null"
      THEN [raised |-> "none", value |-> Fin(0)]
    ELSE IF pt1.user.t # "num" \/ pt1.system.t # "num" \/ st1.t # "num"
      THEN [raised |-> "TypeError", value |-> Fin(0)]
    ELSE LET delta_proc == (pt2.user - pt1.user.v) + (pt2.system - pt1.system.v)
             delta_time == st2 - st1.v
         IN  IF delta_time = 0
               THEN [raised |-> "none", value |-> Fin(0)]
               ELSE [raised |-> "none",
                     value |-> Fin(Tenths(delta_proc * 100 * NumCpus, delta_time))]

\* timer() of cpu_percent: time.monotonic() * num_cpus.
timer(now) == now * NumCpus

\* ------------------------------------------------------------ how a script ends
\* Still running.
Running == [status |-> "none", code |-> -1, error |-> "none", traceback |-> FALSE]

\* print(status line) and sys.exit(code).
Exit(status, code, error) ==
    [status |-> status, code |-> code, error |-> error, traceback |-> FALSE]

\* An exception nothing catches: the interpreter prints a traceback on stderr
\* and exits with 1.
Uncaught(status, error) ==
    [status |-> status, code |-> 1, error |-> error, traceback |-> TRUE]

\* tb2unknown, for a method that raised exc: the UNKNOWN line, then exit 3, or
\* the exception again under DEBUG (every caller up to the entry point is
\* either tb2unknown again or nothing).
tb2unknown(exc, debug) ==
    IF debug THEN Uncaught("UNKNOWN", exc) ELSE Exit("UNKNOWN", 3, exc)

\* NagiosArgumentParser.error
ArgumentError == Exit("UNKNOWN", 3, "bad_arguments")

\* ------------------------------------------------------------ get_pid_cpu_percent
\* A comparison that never sees the pid change.
PidNeverDiffers(previous, pid) == FALSE

\* previous.pid != pid
PidDiffers(previous, pid) == previous.pid # JNum(pid)

\* What one call did: how it ended (cond), the exception it raised, the
\* percentage it returned, the file before and after, and the baseline it
\* handed to psutil.
Result(cond, exc, value, before, after, seeded, st1, pt1) ==
    [cond |-> cond, exc |-> exc, value |-> value, before |-> before,
     after |-> after, seeded |-> seeded, st1 |-> st1, pt1 |-> pt1]

\* The body of get_pid_cpu_percent for pid, with content at buffer_file, the
\* process running or not, st2 = timer() and pt2 = cpu_times() as psutil
\* reads them, and disk the fate of the write ("ok", "denied": open fails,
\* "full": the write fails after open truncated the file).
get_pid_cpu_percent(pid, content, running, st2, pt2, disk) ==
    LET loaded == load_from_disk(content)
        has_load_missing == loaded.raised = "FileNotFoundError"
        has_load_error == loaded.raised \notin {"none", "FileNotFoundError"}
        previous == loaded.value
        has_pid_changed ==
            ~has_load_missing /\ ~has_load_error /\ PidDiffers(previous, pid)
        seeded == ~has_load_missing /\ ~has_load_error /\ ~has_pid_changed
        st1 == previous.timestamp
        pt1 == pcputimes(previous.user, previous.system, previous.children_user,
                         previous.children_user, previous.iowait)
        percent == cpu_percent(seeded, st1, pt1, st2, pt2)
        parsed == CpuTimesNamedTuple(JNum(pid), JNum(st2), JNum(pt2.user),
                                     JNum(pt2.system), JNum(pt2.children_user),
                                     JNum(pt2.children_system), JNum(pt2.iowait))
        saved == save_to_disk(parsed)
        R(cond, exc, value, after) ==
            Result(cond, exc, value, content, after, seeded, st1, pt1)
    IN  IF ~running
          THEN R("not_running", "AssertionError", Fin(0), content)
        ELSE IF percent.raised # "none"
          THEN R("exception", percent.raised, Fin(0), content)
        ELSE IF disk = "denied"
          THEN R("save_failed", "PermissionError", Fin(0), content)
        ELSE IF disk = "full"
          THEN R("save_failed", "OSError", Fin(0), Garbage("truncated"))
        ELSE IF has_load_missing
          THEN R("first_run", "RuntimeError", Fin(0), saved)
        ELSE IF has_load_error
          THEN R("corrupt", "RuntimeError", Fin(0), saved)
        ELSE IF has_pid_changed
          THEN IF previous.pid.t = "num"
                 THEN R("pid_changed", "RuntimeError", Fin(0), saved)
                 ELSE R("exception", "TypeError", Fin(0), saved)
        ELSE R("ok", "none", percent.value, saved)

\* Per pid: the calls so far (0, 1, or 2 for two and more), whether in all of
\* them the process was running and the write went through, and how the last
\* one ended and what it left in the file.
NoHistory == [n |-> 0, healthy |-> TRUE, cond |-> "none", after |-> Missing]

Record1(h, r) ==
    [n |-> IF h.n < 2 THEN h.n + 1 ELSE 2,
     healthy |-> h.healthy /\ r.cond \notin {"not_running", "save_failed"},
     cond |-> r.cond,
     after |-> r.after]

\* The last call: its pid, what it did, and the history of the pid before
\* and with it.
NoCall ==
    [pid |-> 0, fate |-> "same",
     r |-> Result("none", "none", Fin(0), Missing, Missing, FALSE, JNull,
                  pcputimes(JNull, JNull, JNull, JNull, JNull)),
     prev |-> NoHistory, now |-> NoHistory]

\* The probes that run side by side, and one of them: its pid, its step
\* ("load", "open", "dump", "done"), what get_pid_cpu_percent computed from
\* the file it loaded, the file as its write found it, and the probes that
\* had finished when it loaded.
Invocations == {1, 2}

NoInvocation ==
    [pid |-> 0, pc |-> "none", r |-> NoCall.r, found |-> Missing, finished |-> {}]

\* ------------------------------------------------------------ classification
\* A classification that tests the warning range first.
ClassifyWarningFirst(percent, warning, critical) ==
    LET OUTSIDE_THRESHOLD_WARNING == is_outside_boundaries(warning, percent)
        OUTSIDE_THRESHOLD_CRITICAL == is_outside_boundaries(critical, percent)
    IN  IF OUTSIDE_THRESHOLD_WARNING # None THEN Exit("WARNING", 1, "none")
        ELSE IF OUTSIDE_THRESHOLD_CRITICAL # None THEN Exit("CRITICAL", 2, "none")
        ELSE Exit("OK", 0, "none")

\* Lines 332-367 of the CPU probe: the status and the exit code.
Classify(percent, warning, critical) ==
    LET OUTSIDE_THRESHOLD_WARNING == is_outside_boundaries(warning, percent)
        OUTSIDE_THRESHOLD_CRITICAL == is_outside_boundaries(critical, percent)
    IN  IF OUTSIDE_THRESHOLD_CRITICAL # None THEN Exit("CRITICAL", 2, "none")
        ELSE IF OUTSIDE_THRESHOLD_WARNING # None THEN Exit("WARNING", 1, "none")
        ELSE Exit("OK", 0, "none")

\* int(round(a * 100.0 / b)) for b > 0: round half to even.
RoundPercent(a, b) ==
    LET q == (a * 100) \div b
        r == (a * 100) % b
    IN  IF 2 * r < b THEN q
        ELSE IF 2 * r > b THEN q + 1
        ELSE IF q % 2 = 0 THEN q ELSE q + 1

\* Lines 142-161 of check_open_fds.py.
FdsClassify(used, max, warning, critical) ==
    IF max = 0 THEN Uncaught("none", "ZeroDivisionError")
    ELSE LET PERCENTAGE == RoundPercent(used, max)
         IN  IF PERCENTAGE > critical THEN Exit("CRITICAL", 2, "none")
             ELSE IF PERCENTAGE > warning THEN Exit("WARNING", 1, "none")
             ELSE Exit("OK", 0, "none")

\* ------------------------------------------------------------ probe inputs
\* The -W and -C texts the CPU probe is run with: ranges the percentages of
\* the model fall inside and outside of, the empty text and a malformed one.
ProbeConfigs ==
    { [warning |-> <<"6", "0">>, critical |-> <<"1", "5", "0">>, debug |-> d] :
        d \in BOOLEAN }
    \cup { [warning |-> w, critical |-> <<"1", "5", "0">>, debug |-> FALSE] :
             w \in {<<>>, <<"a">>, <<"~", ":", "2", "5", "0">>} }
    \cup { [warning |-> <<"6", "0">>, critical |-> c, debug |-> FALSE] :
             c \in {<<>>, <<"@", "5", "0", ":", "1", "0", "0">>} }

\* The -W, -C and -D check_open_fds.py is run with: the defaults, a warning
\* above the critical, a percentage above 100.
FdsConfigs ==
    { [warning |-> 75, critical |-> 85, debug |-> d] : d \in BOOLEAN }
    \cup { [warning |-> 85, critical |-> 75, debug |-> FALSE],
           [warning |-> 75, critical |-> 101, debug |-> FALSE] }

\* (open descriptors, hard limit) pairs psutil reports.
FdsReadings == {<<50, 100>>, <<80, 100>>, <<90, 100>>, <<1, 0>>}

\* What the monitored process consumed between two readings of its times:
\* nothing, a unit of user time, or a unit of system time spent in part
\* waiting for a child and for I/O.
Increments ==
    { pcputimes(0, 0, 0, 0, 0), pcputimes(1, 0, 0, 0, 0), pcputimes(0, 1, 1, 0, 1) }

AddTimes(a, b) ==
    pcputimes(a.user + b.user, a.system + b.system,
              a.children_user + b.children_user,
              a.children_system + b.children_system, a.iowait + b.iowait)

\* The fate of the write of the state file.
DiskOutcomes == {"ok", "denied", "full"}

\* A sample of pid 1 taken at clock 0, and the same with one field holding
\* something else: another pid, a string, null.
SampleAtZero ==
    CpuTimesNamedTuple(JNum(1), JNum(0), JNum(0), JNum(0), JNum(1), JNum(0), JNum(0))

InitialRecords ==
    { Record(SampleAtZero) }
    \cup { Record([SampleAtZero EXCEPT !.pid = v]) : v \in {JNum(OtherPid), JStr} }
    \cup { Record([SampleAtZero EXCEPT !.timestamp = v]) : v \in {JStr, JNull} }
    \cup { Record([SampleAtZero EXCEPT ![f] = JStr]) :
             f \in {"user", "system", "children_user", "iowait"} }

\* What the state file of pid 1 holds before the first run: nothing, text
\* that does not deserialize, or an object with the seven names.
InitialContents ==
    {Missing} \cup { Garbage(k) : k \in GarbageKinds } \cup InitialRecords

NoConfig == [warning |-> <<>>, critical |-> <<>>, debug |-> FALSE]
NoFds == [warning |-> 0, critical |-> 0, debug |-> FALSE, USED |-> 0, MAX |-> 0]

\* The globals of a script before its first statement.
Fresh ==
    /\ PID' = 0
    /\ CPU_PERCENT' = Fin(0)
    /\ THRESHOLD_WARNING' = NoThreshold
    /\ THRESHOLD_CRITICAL' = NoThreshold

ProbeStart(contents) ==
    /\ files \in { [p \in Slots |-> IF p = 1 THEN c ELSE Missing] : c \in contents }
    /\ proc = [p \in Slots |-> ZeroTimes]
    /\ clock = 0
    /\ probe = "none"
    /\ pc = "idle"
    /\ CONFIG = NoConfig
    /\ PID = 0
    /\ CPU_PERCENT = Fin(0)
    /\ THRESHOLD_WARNING = NoThreshold
    /\ THRESHOLD_CRITICAL = NoThreshold
    /\ fds = NoFds
    /\ out = Running
    /\ call = NoCall
    /\ hist = [p \in Pids |-> NoHistory]
    /\ inv = [i \in Invocations |-> NoInvocation]

ThresholdInit == ThresholdStart /\ ProbeStart({Missing})

\* ------------------------------------------------------------ the environment
\* What became of the process under a pid since its times were last read: it
\* is the same process, it exited and another one got the pid, or it exited
\* and nothing runs under the pid.
Fates == {"same", "replaced", "gone"}

\* The times psutil reads now: the process has consumed inc since the last
\* reading, and a new process started from zero.
cpu_times(times, fate, inc) ==
    IF fate = "same" THEN AddTimes(times, inc)
    ELSE IF fate = "replaced" THEN AddTimes(ZeroTimes, inc)
    ELSE ZeroTimes

\* ------------------------------------------------------------ check_process_cpu_usage.py
\* CONFIG = parse_args(); DEBUG = CONFIG.debug
ParseArgs ==
    /\ pc \in {"idle", "done"}
    /\ probe' = "cpu"
    /\ Fresh
    /\ fds' = NoFds
    /\ call' = NoCall
    /\ \/ /\ CONFIG' \in ProbeConfigs
          /\ out' = Running
          /\ pc' = "pid"
       \/ /\ CONFIG' = NoConfig
          /\ out' = ArgumentError
          /\ pc' = "done"
    /\ UNCHANGED <<envvars, hist, tvars, inv>>

\* PID = get_pid_from_command(CONFIG.pid_cmd): the command fails, prints
\* something that is no number, or prints a pid.  Both scripts hold the same
\* function.
GetPid ==
    /\ pc = "pid"
    /\ \E failure \in {"none", "returncode", "not_digit"}, r \in Pids :
         IF failure = "none"
           THEN /\ PID' = r
                /\ pc' = IF probe = "cpu" THEN "cpu" ELSE "fds"
                /\ out' = out
           ELSE /\ PID' = PID
                /\ pc' = "done"
                /\ out' = tb2unknown("AssertionError",
                                     IF probe = "cpu" THEN CONFIG.debug ELSE fds.debug)
    /\ UNCHANGED <<envvars, probe, CONFIG, CPU_PERCENT, THRESHOLD_WARNING,
                   THRESHOLD_CRITICAL, fds, call, hist, tvars, inv>>

\* CPU_PERCENT = get_pid_cpu_percent(PID, BUFFER_PATH), under tb2unknown.  The
\* clock has moved on and the process has consumed CPU since the last reading.
CallGetPidCpuPercent(now, disk, fate, pt2) ==
    LET r == get_pid_cpu_percent(PID, files[BUFFER_PATH(PID)], fate # "gone",
                                 timer(now), pt2, disk)
    IN  /\ clock' = now
        /\ proc' = [proc EXCEPT ![PID] = pt2]
        /\ files' = [files EXCEPT ![BUFFER_PATH(PID)] = r.after]
        /\ call' = [pid |-> PID, r |-> r, fate |-> fate, prev |-> hist[PID],
                    now |-> Record1(hist[PID], r)]
        /\ hist' = [hist EXCEPT ![PID] = Record1(@, r)]
        /\ IF r.cond = "ok"
             THEN /\ CPU_PERCENT' = r.value
                  /\ out' = out
                  /\ pc' = "thresholds"
             ELSE /\ CPU_PERCENT' = CPU_PERCENT
                  /\ out' = tb2unknown(r.exc, CONFIG.debug)
                  /\ pc' = "done"
        /\ UNCHANGED <<probe, CONFIG, PID, THRESHOLD_WARNING,
                       THRESHOLD_CRITICAL, fds, tvars, inv>>

GetPidCpuPercent ==
    /\ pc = "cpu"
    /\ \E now \in {t \in {clock, clock + 1} : t <= MaxClock}, disk \in DiskOutcomes, fate \in Fates,
          inc \in Increments :
         LET pt2 == cpu_times(proc[PID], fate, inc)
         IN  /\ pt2.user + pt2.system <= MaxWork
             /\ CallGetPidCpuPercent(now, disk, fate, pt2)

\* THRESHOLD_WARNING = NagiosThreshold(CONFIG.warning) and THRESHOLD_CRITICAL =
\* NagiosThreshold(CONFIG.critical), at the top level of the script: nothing
\* catches what the constructor raises.
MakeThresholds ==
    /\ pc = "thresholds"
    /\ LET w == NagiosThreshold(CONFIG.warning)
           c == NagiosThreshold(CONFIG.critical)
       IN  IF w.state # "ok"
             THEN /\ THRESHOLD_WARNING' = THRESHOLD_WARNING
                  /\ THRESHOLD_CRITICAL' = THRESHOLD_CRITICAL
                  /\ out' = Uncaught("none", w.state)
                  /\ pc' = "done"
           ELSE IF c.state # "ok"
             THEN /\ THRESHOLD_WARNING' = w
                  /\ THRESHOLD_CRITICAL' = THRESHOLD_CRITICAL
                  /\ out' = Uncaught("none", c.state)
                  /\ pc' = "done"
           ELSE /\ THRESHOLD_WARNING' = w
                /\ THRESHOLD_CRITICAL' = c
                /\ out' = out
                /\ pc' = "classify"
    /\ UNCHANGED <<envvars, probe, CONFIG, PID, CPU_PERCENT, fds, call,
                   hist, tvars, inv>>

\* The classification, print and sys.exit(CODE).
ClassifyExit ==
    /\ pc = "classify"
    /\ out' = Classify(CPU_PERCENT, THRESHOLD_WARNING, THRESHOLD_CRITICAL)
    /\ pc' = "done"
    /\ UNCHANGED <<envvars, probe, CONFIG, PID, CPU_PERCENT,
                   THRESHOLD_WARNING, THRESHOLD_CRITICAL, fds, call, hist, tvars, inv>>

\* ------------------------------------------------------------ check_open_fds.py
\* CONFIG = parse_args(): argparse and the two checks on the percentages.
FdsParseArgs ==
    /\ pc \in {"idle", "done"}
    /\ probe' = "fds"
    /\ Fresh
    /\ CONFIG' = NoConfig
    /\ call' = NoCall
    /\ \E args \in FdsConfigs :
         IF \/ args.warning > args.critical
            \/ args.warning < 0 \/ args.warning > 100
            \/ args.critical < 0 \/ args.critical > 100
           THEN /\ fds' = NoFds
                /\ out' = ArgumentError
                /\ pc' = "done"
           ELSE /\ fds' = [NoFds EXCEPT !.warning = args.warning,
                                        !.critical = args.critical,
                                        !.debug = args.debug]
                /\ out' = Running
                /\ pc' = "pid"
    /\ UNCHANGED <<envvars, hist, tvars, inv>>

\* USED, MAX = get_pid_fds(PID), under tb2unknown.
GetPidFds ==
    /\ pc = "fds"
    /\ \E fate \in {"same", "gone"} :
         /\ proc' = [proc EXCEPT ![PID] = cpu_times(@, fate, ZeroTimes)]
         /\ IF fate = "same"
              THEN /\ \E m \in FdsReadings :
                        fds' = [fds EXCEPT !.USED = m[1], !.MAX = m[2]]
                   /\ out' = out
                   /\ pc' = "fdsclassify"
              ELSE /\ fds' = fds
                   /\ out' = tb2unknown("AssertionError", fds.debug)
                   /\ pc' = "done"
    /\ UNCHANGED <<files, clock, probe, CONFIG, PID, CPU_PERCENT,
                   THRESHOLD_WARNING, THRESHOLD_CRITICAL, call, hist, tvars, inv>>

\* PERCENTAGE, the classification, print and sys.exit(CODE).
FdsClassifyExit ==
    /\ pc = "fdsclassify"
    /\ out' = FdsClassify(fds.USED, fds.MAX, fds.warning, fds.critical)
    /\ pc' = "done"
    /\ UNCHANGED <<envvars, probe, CONFIG, PID, CPU_PERCENT,
                   THRESHOLD_WARNING, THRESHOLD_CRITICAL, fds, call, hist, tvars, inv>>

\* ------------------------------------------------------------ specifications
Init == ThresholdIdle /\ ProbeStart(InitialContents)

Next ==
    \/ ParseArgs
    \/ GetPid
    \/ GetPidCpuPercent
    \/ MakeThresholds
    \/ ClassifyExit
    \/ FdsParseArgs
    \/ GetPidFds
    \/ FdsClassifyExit

Spec == Init /\ [][Next]_vars

\* The probes started on a state file that is missing or corrupt: it does not
\* deserialize, or a field holds a value of the wrong type.
InitHeal ==
    /\ ThresholdIdle
    /\ ProbeStart({ c \in InitialContents : ~AllNumbers(c) })

SpecHeal == InitHeal /\ [][Next]_vars

SpecThreshold == ThresholdInit /\ [][ThresholdNext]_vars

\* ------------------------------------------------------------ one differencing
\* get_pid_cpu_percent on a stored sample of pid 1 and a later reading of the
\* process, both drawn from small sets around the figures of the documented
\* example: user 10 and system 5 stored, user 14 and system 6 read ten
\* seconds later.  The stored timestamp may also be the current one or a later
\* one: the file outlives a restart of the clock.
PercentClocks == {0, 10, 30}
PercentNows == {10, 20}

PercentSamples ==
    { CpuTimesNamedTuple(JNum(1), JNum(timer(t0)), JNum(10), JNum(5),
                         JNum(cu), JNum(cs), JNum(io)) :
        t0 \in PercentClocks, cu \in {0, 1}, cs \in {0, 1}, io \in {1, 2} }

PercentReadings ==
    { pcputimes(u, sy, cu, 1, io) :
        u \in {10, 14}, sy \in {5, 6}, cu \in {1, 2}, io \in {2, 3} }

PercentInit ==
    /\ ThresholdIdle
    /\ files \in { [p \in Slots |-> IF p = 1 THEN Record(sm) ELSE Missing] :
                     sm \in PercentSamples }
    /\ proc = [p \in Slots |->
                 IF p = 1
                   THEN pcputimes(files[1].data.user.v, files[1].data.system.v,
                                  files[1].data.children_user.v,
                                  files[1].data.children_system.v,
                                  files[1].data.iowait.v)
                   ELSE ZeroTimes]
    /\ clock = 0
    /\ probe = "cpu"
    /\ pc = "cpu"
    /\ CONFIG = [warning |-> <<"6", "0">>, critical |-> <<"1", "5", "0">>,
                 debug |-> FALSE]
    /\ PID = 1
    /\ CPU_PERCENT = Fin(0)
    /\ THRESHOLD_WARNING = NoThreshold
    /\ THRESHOLD_CRITICAL = NoThreshold
    /\ fds = NoFds
    /\ out = Running
    /\ call = NoCall
    /\ hist = [p \in Pids |-> NoHistory]
    /\ inv = [i \in Invocations |-> NoInvocation]

\* CPU_PERCENT = get_pid_cpu_percent(PID, BUFFER_PATH) on the later reading.
SampleLater ==
    /\ pc = "cpu"
    /\ \E now \in PercentNows, pt2 \in PercentReadings :
         CallGetPidCpuPercent(now, "ok", "same", pt2)

PercentNext == SampleLater

SpecPercent == PercentInit /\ [][PercentNext]_vars

\* ------------------------------------------------------------ probes side by side
\* Two CPU probes started by the supervisor, on the same pid or on two, each
\* pid with a sample of an earlier run in its state file.  A probe goes
\* through get_pid_cpu_percent in three steps, one per access to the file:
\* the load (with all that is computed from it), the open for writing, and
\* the write with the raise or return that follows.
RaceSample(pid) ==
    CpuTimesNamedTuple(JNum(pid), JNum(0), JNum(9), JNum(0), JNum(0), JNum(0), JNum(0))

RaceStart ==
    /\ ThresholdIdle
    /\ files = [p \in Slots |-> Record(RaceSample(p))]
    /\ proc = [p \in Slots |-> pcputimes(9, 0, 0, 0, 0)]
    /\ clock = 0
    /\ probe = "none"
    /\ pc = "idle"
    /\ CONFIG = NoConfig
    /\ PID = 0
    /\ CPU_PERCENT = Fin(0)
    /\ THRESHOLD_WARNING = NoThreshold
    /\ THRESHOLD_CRITICAL = NoThreshold
    /\ fds = NoFds
    /\ out = Running
    /\ call = NoCall
    /\ hist = [p \in Pids |-> NoHistory]
    /\ inv \in { [i \in Invocations |-> [NoInvocation EXCEPT !.pid = f[i], !.pc = "load"]] :
                   f \in [Invocations -> Slots] }

\* Lines 269-306 for probe i: is_running, load_from_disk, the pid check, the
\* seeding, cpu_percent() and parsed.
RaceLoad(i) ==
    /\ inv[i].pc = "load"
    /\ \E now \in {t \in {clock, clock + 1} : t <= MaxClock}, inc \in {0, 1} :
         LET pid == inv[i].pid
             pt2 == AddTimes(proc[pid], pcputimes(inc, 0, 0, 0, 0))
             r == get_pid_cpu_percent(pid, files[BUFFER_PATH(pid)], TRUE,
                                      timer(now), pt2, "ok")
         IN  /\ pt2.user <= 9 + MaxWork
             /\ clock' = now
             /\ proc' = [proc EXCEPT ![pid] = pt2]
             /\ inv' = [inv EXCEPT ![i].r = r,
                                   ![i].pc = IF r.cond = "exception" THEN "done" ELSE "open",
                                   ![i].finished = { k \in Invocations : inv[k].pc = "done" }]
    /\ UNCHANGED <<files, probe, pc, CONFIG, PID, CPU_PERCENT, THRESHOLD_WARNING,
                   THRESHOLD_CRITICAL, fds, out, call, hist, tvars>>

\* Line 187 for probe i: open(path, "w").
RaceOpen(i) ==
    /\ inv[i].pc = "open"
    /\ files' = [files EXCEPT ![BUFFER_PATH(inv[i].pid)] = OpenForWriting(@)]
    /\ inv' = [inv EXCEPT ![i].pc = "dump"]
    /\ UNCHANGED <<proc, clock, probe, pc, CONFIG, PID, CPU_PERCENT, THRESHOLD_WARNING,
                   THRESHOLD_CRITICAL, fds, out, call, hist, tvars>>

\* Line 188 and lines 309-317 for probe i: json.dump, the close, and the
\* raise or the return.
RaceDump(i) ==
    /\ inv[i].pc = "dump"
    /\ files' = [files EXCEPT ![BUFFER_PATH(inv[i].pid)] = Dump(inv[i].r.after.data, @)]
    /\ inv' = [inv EXCEPT ![i].pc = "done",
                          ![i].found = files[BUFFER_PATH(inv[i].pid)]]
    /\ UNCHANGED <<proc, clock, probe, pc, CONFIG, PID, CPU_PERCENT, THRESHOLD_WARNING,
                   THRESHOLD_CRITICAL, fds, out, call, hist, tvars>>

RaceNext == \E i \in Invocations : RaceLoad(i) \/ RaceOpen(i) \/ RaceDump(i)

SpecRace == RaceStart /\ [][RaceNext]_vars

\* ------------------------------------------------------------ claims C6..C8
Evaluated == tpc = "evaluated"

\* The rule of the threshold format, stated on the boundaries.
Violates(self, x) ==
    IF self.inclusive
      THEN Lt(x, self.low_boundary) \/ Gt(x, self.high_boundary)
      ELSE Le(x, self.low_boundary) \/ Ge(x, self.high_boundary)

\* C6: is_outside_boundaries reports a violation exactly when value <= low or
\* value >= high for a range that is not inclusive, and exactly when
\* value < low or value > high for an inclusive one ("@10:20" accepts 10 and
\* 20 and rejects the numbers just outside); the call leaves the boundaries
\* unchanged.
C6_OutsideBoundaries ==
    /\ [](Evaluated =>
            /\ (outside # None) <=>
                 IF threshold.inclusive
                   THEN \/ number.v < threshold.low_boundary.v /\ threshold.low_boundary.inf = 0
                        \/ threshold.low_boundary.inf = 1
                        \/ number.v > threshold.high_boundary.v /\ threshold.high_boundary.inf = 0
                        \/ threshold.high_boundary.inf = -1
                   ELSE \/ number.v <= threshold.low_boundary.v /\ threshold.low_boundary.inf = 0
                        \/ threshold.low_boundary.inf = 1
                        \/ number.v >= threshold.high_boundary.v /\ threshold.high_boundary.inf = 0
                        \/ threshold.high_boundary.inf = -1
            /\ raw = <<"@", "1", "0", ":", "2", "0">> =>
                 /\ number \in {Fin(10 * Scale), Fin(20 * Scale)} => outside = None
                 /\ number \in {Fin(10 * Scale - 1), Fin(20 * Scale + 1)} => outside # None
            /\ raw = <<"1", "0", ":", "2", "0">> =>
                 /\ number \in {Fin(10 * Scale), Fin(20 * Scale)} => outside # None
                 /\ number \in {Fin(10 * Scale + 1), Fin(20 * Scale - 1)} => outside = None)
    /\ [][Evaluated' => threshold' = threshold]_vars

\* C6 witness: "@10:20" evaluated at its boundary 20, which it accepts.
C6_Witness ==
    /\ Evaluated
    /\ raw = <<"@", "1", "0", ":", "2", "0">>
    /\ number = Fin(20 * Scale)
    /\ outside = None

\* Number texts with the values they denote.
Tokens ==
    { [text |-> <<"1">>, val |-> Fin(Scale)],
      [text |-> <<"5">>, val |-> Fin(5 * Scale)],
      [text |-> <<"1", "5">>, val |-> Fin(15 * Scale)],
      [text |-> <<"1", ".", "5">>, val |-> Fin((15 * Scale) \div 10)],
      [text |-> <<"5", ".", "1">>, val |-> Fin((51 * Scale) \div 10)],
      [text |-> <<"1", "0">>, val |-> Fin(10 * Scale)],
      [text |-> <<"2", "0">>, val |-> Fin(20 * Scale)] }

Parsed(incl, low, high) ==
    [state |-> "ok", inclusive |-> incl, low_boundary |-> low, high_boundary |-> high]

\* C7: "N" gives low 0 and high N, "N:" low N and high +infinity, "~:N" low
\* -infinity and high N, "N:M" low N and high M; a leading "@" sets inclusive
\* and changes neither boundary; "~:5" accepts every negative value and
\* rejects every value >= 5.
C7_FourForms ==
    /\ tpc # "new" =>
         \A incl \in BOOLEAN, N \in Tokens, M \in Tokens :
           LET at == IF incl THEN <<"@">> ELSE <<>>
           IN  /\ raw = at \o N.text => threshold = Parsed(incl, Fin(0), N.val)
               /\ raw = at \o N.text \o <<":">> => threshold = Parsed(incl, N.val, PosInf)
               /\ raw = at \o <<"~", ":">> \o N.text => threshold = Parsed(incl, NegInf, N.val)
               /\ raw = at \o N.text \o <<":">> \o M.text
                    => threshold = Parsed(incl, N.val, M.val)
    /\ Evaluated /\ raw = <<"~", ":", "5">> =>
         /\ number.v < 0 => outside = None
         /\ number.v >= 5 * Scale => outside # None

\* C7 witness: "~:5" evaluated at a negative value, which it accepts.
C7_Witness ==
    /\ Evaluated
    /\ raw = <<"~", ":", "5">>
    /\ threshold = Parsed(FALSE, NegInf, Fin(5 * Scale))
    /\ number.v < 0
    /\ outside = None

\* A number of the grammar: \d+(\.\d+)? and nothing else.
IsNumber(t) == Len(t) > 0 /\ NumberLen(t, 1) = Len(t)

\* The four forms of the range grammar, with or without a leading "@".
InGrammar(t) ==
    LET body == IF CharAt(t, 1) = "@" THEN SubSeq(t, 2, Len(t)) ELSE t
    IN  \/ IsNumber(body)
        \/ \E k \in 1..Len(body) :
             LET low == SubSeq(body, 1, k - 1)
                 high == SubSeq(body, k + 1, Len(body))
             IN  /\ body[k] = ":"
                 /\ \/ IsNumber(low) /\ (high = <<>> \/ IsNumber(high))
                    \/ low = <<"~">> /\ IsNumber(high)

\* C8: constructing a NagiosThreshold from a text that does not match the
\* range grammar fails with a format error; no such text yields a threshold
\* object.
C8_MalformedRejected ==
    (tpc # "new" /\ ~InGrammar(raw)) => threshold.state = "AssertionError"

\* ------------------------------------------------------------ claims C1..C5
\* get_pid_cpu_percent was called in this run, found the process running and
\* its write of the state file went through.
Called == call.pid # 0 /\ call.r.cond \notin {"not_running", "save_failed"}

\* The run ended UNKNOWN on exc: exit code 3, or the exception itself under
\* --debug.
EndedUnknown(exc) == pc = "done" /\ out = tb2unknown(exc, CONFIG.debug)

\* The state file of the call's pid holds the sample of this call.
HoldsCurrentSample ==
    /\ WellFormed(files[call.pid], call.pid)
    /\ files[call.pid].data.timestamp = JNum(timer(clock))
    /\ files[call.pid].data.user = JNum(proc[call.pid].user)
    /\ files[call.pid].data.system = JNum(proc[call.pid].system)
    /\ load_from_disk(files[call.pid]).raised = "none"

\* C1: with no state file, get_pid_cpu_percent writes the current sample and
\* then ends with the first-run error (UNKNOWN, exit 3, no percentage); the
\* call that follows it against the same running pid loads that record and
\* reports neither the first-run nor the corrupt condition.
C1_FirstRun ==
    /\ (Called /\ call.r.before.kind = "missing") =>
         /\ call.r.cond = "first_run"
         /\ HoldsCurrentSample
         /\ EndedUnknown("RuntimeError")
         /\ ~CONFIG.debug => out.code = 3 /\ out.status = "UNKNOWN"
    /\ (call.pid # 0 /\ call.prev.cond = "first_run" /\ call.r.cond # "not_running") =>
         /\ call.r.before = call.prev.after
         /\ WellFormed(call.r.before, call.pid)
         /\ call.r.cond \notin {"first_run", "corrupt"}

\* C1 witness: the call after a first run returned a percentage.
C1_Witness ==
    /\ Called
    /\ call.prev.cond = "first_run"
    /\ call.r.cond = "ok"
    /\ call.r.before = call.prev.after

\* C2: with a state file that does not deserialize (truncated, not JSON, a
\* field missing, an unknown field), get_pid_cpu_percent ends with the
\* corrupt-state error (UNKNOWN, exit 3), never with a percentage, and has
\* overwritten the file with a well-formed sample of the pid: the next load
\* succeeds.
C2_CorruptHeals ==
    (Called /\ call.r.before.kind \in GarbageKinds) =>
      /\ call.r.cond = "corrupt"
      /\ HoldsCurrentSample
      /\ EndedUnknown("RuntimeError")
      /\ ~CONFIG.debug => out.code = 3 /\ out.status = "UNKNOWN"

\* C2 witness: a call found a truncated file and left a sample.
C2_Witness ==
    /\ Called
    /\ call.r.before.kind = "truncated"
    /\ call.r.cond = "corrupt"
    /\ HoldsCurrentSample

\* C3: with a well-formed record of another pid, get_pid_cpu_percent does not
\* use the record as baseline, overwrites the file with a sample of the
\* requested pid and ends with the pid-changed error (UNKNOWN, exit 3).
C3_PidChanged ==
    (Called /\ AllNumbers(call.r.before) /\ call.r.before.data.pid # JNum(call.pid)) =>
      /\ call.r.cond = "pid_changed"
      /\ ~call.r.seeded
      /\ HoldsCurrentSample
      /\ EndedUnknown("RuntimeError")
      /\ ~CONFIG.debug => out.code = 3 /\ out.status = "UNKNOWN"

\* C3 witness: a call found the sample of another pid.
C3_Witness ==
    /\ Called
    /\ call.r.before.data.pid = JNum(OtherPid)
    /\ call.r.cond = "pid_changed"
    /\ files[call.pid].data.pid = JNum(call.pid)

\* C4: a record with the seven names and a value of the wrong type in some
\* field is classified as corrupt: the run reports the corrupt-state condition
\* and leaves a well-formed sample in the file.
C4_WrongTypeIsCorrupt ==
    (Called /\ call.r.before.kind = "record" /\ ~AllNumbers(call.r.before)) =>
      /\ call.r.cond = "corrupt"
      /\ WellFormed(files[call.pid], call.pid)

\* C5: for a pid that stays running and with the writes going through, from
\* a missing or corrupt state file, every call of get_pid_cpu_percent from the
\* second on returns a percentage.
C5_ForwardProgress ==
    (call.pid # 0 /\ call.now.n >= 2 /\ call.now.healthy) => call.r.cond = "ok"

\* ------------------------------------------------------------ claims C9, C10
Classified == pc = "done" /\ probe = "cpu" /\ THRESHOLD_CRITICAL.state = "ok"

\* C9: the exit code of the CPU probe is 2 exactly when the percentage
\* violates the critical range, 1 exactly when it violates the warning range
\* and not the critical one, 0 exactly when it violates neither.
C9_Classification ==
    Classified =>
      LET crit == Violates(THRESHOLD_CRITICAL, CPU_PERCENT)
          warn == Violates(THRESHOLD_WARNING, CPU_PERCENT)
      IN  /\ out.code \in {0, 1, 2}
          /\ out.code = 2 <=> crit
          /\ out.code = 1 <=> (warn /\ ~crit)
          /\ out.code = 0 <=> (~warn /\ ~crit)
          /\ out.status = (CASE out.code = 2 -> "CRITICAL"
                             [] out.code = 1 -> "WARNING"
                             [] OTHER -> "OK")

\* C9 witness: a percentage outside both ranges ended CRITICAL.
C9_Witness ==
    /\ Classified
    /\ Violates(THRESHOLD_CRITICAL, CPU_PERCENT)
    /\ Violates(THRESHOLD_WARNING, CPU_PERCENT)
    /\ out.code = 2

\* C10: without the debug flag every run ends with a status line and an exit
\* code in 0..3, and every run in which an error occurred (a malformed or
\* empty threshold text and a limit of 0 among them) exits with 3.
C10_AlwaysUnknown ==
    (pc = "done" /\ ~CONFIG.debug /\ ~fds.debug) =>
      /\ out.status # "none"
      /\ ~out.traceback
      /\ out.code \in 0..3
      /\ out.error # "none" => out.code = 3
      /\ (probe = "cpu" /\ CONFIG # NoConfig
            /\ (~InGrammar(CONFIG.warning) \/ ~InGrammar(CONFIG.critical)))
           => out.code = 3

\* ------------------------------------------------------------ claim C11
\* The call returned a percentage computed against the stored sample.
Differenced == call.pid # 0 /\ call.r.cond = "ok" /\ call.r.seeded

\* C11: with a valid baseline the percentage is 100 * (d_user + d_system) /
\* d_timestamp times the number of CPUs (the timestamps are seconds times the
\* number of CPUs), rounded to a tenth: iowait and the children counters of
\* neither sample enter it.  From user 10, system 5, iowait 1 to user 14,
\* system 6, iowait 3 ten seconds later the result is 50.
C11_PercentFormula ==
    Differenced =>
      LET before == call.r.before.data
          d_user == proc[call.pid].user - before.user.v
          d_system == proc[call.pid].system - before.system.v
          d_timestamp == timer(clock) - before.timestamp.v
          exact == 100 * (d_user + d_system) * NumCpus * Scale
          off == call.r.value.v * d_timestamp - exact
          tenth == Scale \div 10
      IN  /\ call.r.value.inf = 0
          /\ call.r.value.v % tenth = 0
          /\ d_timestamp > 0 => 2 * off <= tenth * d_timestamp
                                /\ -2 * off <= tenth * d_timestamp
          /\ d_timestamp < 0 => 2 * off <= -tenth * d_timestamp
                                /\ -2 * off <= -tenth * d_timestamp
          /\ (/\ before.user.v = 10 /\ before.system.v = 5 /\ before.iowait.v = 1
              /\ before.timestamp.v = timer(0)
              /\ proc[call.pid].user = 14 /\ proc[call.pid].system = 6
              /\ proc[call.pid].iowait = 3
              /\ clock = 10)
             => call.r.value = Fin(50 * Scale)

\* C11 witness: the documented example, differenced.
C11_Witness ==
    /\ Differenced
    /\ call.r.before.data.user.v = 10 /\ call.r.before.data.system.v = 5
    /\ call.r.before.data.iowait.v = 1
    /\ call.r.before.data.timestamp.v = timer(0)
    /\ proc[call.pid].user = 14 /\ proc[call.pid].system = 6
    /\ proc[call.pid].iowait = 3
    /\ clock = 10
    /\ call.r.value = Fin(50 * Scale)

\* ------------------------------------------------------------ claims C13..C16
\* C13: get_pid_cpu_percent writes the sample of the current call in every
\* call, those that end in an error of any kind included: unless the write
\* itself fails, the state file holds the current sample when the call ends.
\* Stated for the calls that find the process running, which have a sample.
C13_AlwaysWrites ==
    (call.pid # 0 /\ call.r.cond \notin {"save_failed", "not_running"})
      => HoldsCurrentSample

\* C14: when the load succeeds and the pid matches, the baseline handed to
\* psutil equals the stored sample field for field: timestamp, user, system,
\* children_user, children_system and iowait.
C14_BaselineFieldForField ==
    (call.pid # 0 /\ call.r.seeded /\ call.r.cond # "not_running"
       /\ AllNumbers(call.r.before)) =>
      /\ call.r.st1 = call.r.before.data.timestamp
      /\ \A f \in {"user", "system", "children_user", "children_system", "iowait"} :
           call.r.pt1[f] = call.r.before.data[f]

\* C15: a percentage is returned only when the stored sample has the requested
\* pid and a timestamp strictly earlier than the current one; a returned
\* percentage is never negative.
C15_EarlierTimestamp ==
    (call.pid # 0 /\ call.r.cond = "ok") =>
      /\ call.r.before.kind = "record"
      /\ call.r.before.data.pid = JNum(call.pid)
      /\ call.r.before.data.timestamp.t = "num"
      /\ call.r.before.data.timestamp.v < timer(clock)
      /\ call.r.value.v >= 0

\* C16: when the process of the stored sample has exited and another one runs
\* under the same pid, the call does not difference the new counters against
\* the stored sample: it reports that the pid changed.
C16_PidReuseDetected ==
    (Called /\ call.fate = "replaced" /\ AllNumbers(call.r.before)
       /\ call.r.before.data.pid = JNum(call.pid)) =>
      /\ ~call.r.seeded
      /\ call.r.cond = "pid_changed"

\* ------------------------------------------------------------ claims C12, C17
AllDone == \A i \in Invocations : inv[i].pc = "done"

\* C12: a CPU probe on pid p reads and writes only the state file of p and
\* leaves the file of every other pid unchanged, however probes on different
\* pids interleave; a second probe on the same pid reads what the first wrote
\* and overwrites it.
C12_SlotPerPid ==
    /\ [][\A q \in Slots :
            files'[q] # files[q] =>
              \E i \in Invocations : inv'[i] # inv[i] /\ inv[i].pid = q]_vars
    /\ [][\A i \in Invocations :
            (inv[i].pc = "load" /\ inv'[i].pc # "load") =>
              inv'[i].r.before = files[inv[i].pid]]_vars
    /\ [](\A i, j \in Invocations :
            (/\ i # j /\ inv[i].pid = inv[j].pid
             /\ inv[j].pc = "done" /\ i \in inv[j].finished) =>
              /\ inv[j].r.before = inv[i].r.after
              /\ files[inv[j].pid] = inv[j].r.after
              /\ files[inv[j].pid].data.pid = JNum(inv[j].pid))

\* C12 witness: two probes on two pids have finished and each file holds the
\* new sample of its pid.
C12_Witness ==
    /\ AllDone
    /\ inv[1].pid # inv[2].pid
    /\ \A i \in Invocations :
         /\ files[inv[i].pid] = inv[i].r.after
         /\ files[inv[i].pid] # Record(RaceSample(inv[i].pid))
         /\ files[inv[i].pid].data.pid = JNum(inv[i].pid)

\* Two probes on the same pid.
SamePid == inv[1].pid # 0 /\ inv[1].pid = inv[2].pid

\* C17: with two overlapping probes on the same pid and a well-formed sample
\* in the file, no load finds the file empty or partly written: neither probe
\* reports the first-run or the corrupt condition, and when both have finished
\* the file holds a well-formed sample of the pid.
C17_NoRace ==
    SamePid =>
      /\ \A i \in Invocations : inv[i].r.cond \notin {"first_run", "corrupt"}
      /\ AllDone => WellFormed(files[inv[1].pid], inv[1].pid)

\* C17 as the code has it: neither probe reports the first-run condition; a
\* load finds the file empty, and its probe reports the corrupt condition,
\* exactly when it falls between the other probe's open and its write; when
\* both have finished the file holds a well-formed sample of the pid unless a
\* probe wrote over a longer text the other had written since its open.
C17_RaceWindow ==
    /\ [](SamePid =>
            /\ \A i \in Invocations : inv[i].r.cond # "first_run"
            /\ AllDone =>
                 \/ WellFormed(files[inv[1].pid], inv[1].pid)
                 \/ /\ files[inv[1].pid].kind = "not_json"
                    /\ \E j \in Invocations :
                         /\ inv[j].found.kind = "record"
                         /\ TextLen(inv[j].found.data) > TextLen(inv[j].r.after.data))
    /\ [][SamePid =>
            \A i \in Invocations :
              (inv[i].pc = "load" /\ inv'[i].pc # "load") =>
                /\ inv'[i].r.cond \in {"ok", "corrupt"}
                /\ inv'[i].r.cond = "corrupt" <=>
                     \E k \in Invocations \ {i} : inv[k].pc = "dump"
                /\ inv'[i].r.cond = "corrupt" <=> files[inv[i].pid].kind = "truncated"]_vars

\* C17 witness: a probe loaded the file the other had opened and not yet
\* written, and reported the corrupt condition.
C17_Witness ==
    /\ SamePid
    /\ \E i \in Invocations :
         /\ inv[i].r.cond = "corrupt"
         /\ inv[i].r.before.kind = "truncated"

====
